---- MODULE Spec2Model ----
(***************************************************************************)
(* Model of jupyterlab/labapp.py: the one-shot registration of lab         *)
(* extensions (load_jupyter_server_extension) and the per-request page     *)
(* handler (LabHandler.get).                                               *)
(*                                                                         *)
(* Strings that the code takes apart (file names, plugin names) are tuples *)
(* of one-character strings; a URL built by '%s/%s/%s' or ujoin is the     *)
(* record of its path segments.  A python dict is the sequence of its      *)
(* (key, value) items in insertion order.                                  *)
(***************************************************************************)
EXTENDS Integers, Sequences, FiniteSets, TLC

VARIABLES
    env,            \* what the collaborators answer for each configured plugin
    built,          \* the manifest data of the BUILT_FILES folder
    todo,           \* items of lab_config.labextensions the loop has not visited
    out,            \* the dict `out` of load_jupyter_server_extension
    routed,         \* TRUE once web_app.add_handlers has added the LabHandler route
    labextensions,  \* the dict handed to LabHandler.initialize
    pc,             \* per request: position in LabHandler.get
    items,          \* per request: unvisited rest of sorted(labextensions.items())
    bundles,        \* per request: local list `bundles`
    css_files,      \* per request: local list `css_files`
    entries,        \* per request: local list `entries`
    configData,     \* per request: local dict `configData`
    written,        \* per request: pages passed to self.write
    calls,          \* per request: names whose config provider was invoked
    data,           \* per request: local `data`, the build manifest read
    isfile          \* per request: what os.path.isfile answered for main.css

vars == <<env, built, todo, out, routed, labextensions, pc, items, bundles,
          css_files, entries, configData, written, calls, data, isfile>>

(***************************************************************************)
(* Bounds                                                                  *)
(***************************************************************************)
NumRequests == 2

Requests == 1..NumRequests

(***************************************************************************)
(* Module globals                                                          *)
(***************************************************************************)
PREFIX == "/lab"

EXTENSION_PREFIX == "/labextension"

NameA == <<"a">>

NameB == <<"b">>

Names == {NameA, NameB}

\* code points of the characters plugin names are made of
Ord(c) == CASE c = "a" -> 97 [] c = "b" -> 98 [] OTHER -> 0

FooJs == <<"f", "o", "o", ".", "j", "s">>

FooCss == <<"f", "o", "o", ".", "c", "s", "s">>

DotCss == <<".", "c", "s", "s">>

MainCss == <<"m", "a", "i", "n", ".", "c", "s", "s">>

LoaderBundleJs == <<"l", "o", "a", "d", "e", "r", ".", "b", "u", "n", "d", "l", "e", ".", "j", "s">>

MainBundleJs == <<"m", "a", "i", "n", ".", "b", "u", "n", "d", "l", "e", ".", "j", "s">>

CssExt == <<".", "c", "s", "s">>

(***************************************************************************)
(* Python dicts and lists                                                  *)
(***************************************************************************)
RECURSIVE DictSetFirstWins(_, _, _)
\* a merge that keeps the value a key already has
DictSetFirstWins(d, k, v) ==
    IF d = <<>> THEN << <<k, v>> >>
    ELSE IF Head(d)[1] = k THEN d
    ELSE <<Head(d)>> \o DictSetFirstWins(Tail(d), k, v)

RECURSIVE DictSet(_, _, _)
\* d[k] = v : an existing key keeps its position, a new key goes last
DictSet(d, k, v) ==
    IF d = <<>> THEN << <<k, v>> >>
    ELSE IF Head(d)[1] = k THEN << <<k, v>> >> \o Tail(d)
    ELSE <<Head(d)>> \o DictSet(Tail(d), k, v)

DictHas(d, k) == \E i \in 1..Len(d) : d[i][1] = k

DictGet(d, k) == d[CHOOSE i \in 1..Len(d) : d[i][1] = k][2]

DictKeys(d) == {d[i][1] : i \in 1..Len(d)}

DictValues(d) == [i \in 1..Len(d) |-> d[i][2]]

Range(s) == {s[i] : i \in 1..Len(s)}

(***************************************************************************)
(* Values the collaborators can hand to the code                           *)
(***************************************************************************)
None == [kind |-> "none"]

Str(s) == [kind |-> "str", s |-> s]

\* a manifest entry {"entry": ..., "files": [...]}, either key possibly absent
Entry(hasEntry, entry, hasFiles, files) ==
    [kind |-> "dict", hasEntry |-> hasEntry, entry |-> entry,
     hasFiles |-> hasFiles, files |-> files]

ManifestFoo ==
    << <<"foo", Entry(TRUE, "foo/index", TRUE, <<FooJs, FooCss>>)>> >>

ManifestTwoEntries ==
    << <<"foo", Entry(FALSE, "", TRUE, <<FooCss, DotCss>>)>>,
       <<"bar", Entry(TRUE, "bar/index", TRUE, <<FooJs, FooCss>>)>> >>

ManifestEmptyFiles ==
    << <<"foo", Entry(TRUE, "foo/index", TRUE, <<>>)>> >>

ManifestNoFiles ==
    << <<"foo", Entry(TRUE, "", FALSE, <<>>)>> >>

Manifests ==
    {ManifestFoo, ManifestTwoEntries, ManifestEmptyFiles, ManifestNoFiles}

Pair(k, v) == [pair |-> TRUE, k |-> k, v |-> v]

\* an element dict.update cannot unpack into a key and a value
NotAPair == [pair |-> FALSE, k |-> "", v |-> 0]

Raises == [kind |-> "raise", elems |-> <<>>]

ReturnsNone == [kind |-> "none", elems |-> <<>>]

ReturnsDict(elems) == [kind |-> "dict", elems |-> elems]

ReturnsSeq(elems) == [kind |-> "seq", elems |-> elems]

ProviderValues ==
    {Raises, ReturnsNone,
     ReturnsDict(<<Pair("x", 1)>>),
     ReturnsDict(<<Pair("x", 2), Pair("y", 2)>>),
     ReturnsSeq(<<Pair("y", 1), NotAPair>>),
     ReturnsSeq(<<NotAPair, NotAPair>>)}

ModuleOf(name) == Str(<<"m", "o", "d", "_">> \o name)

BuildManifests ==
    { <<>>,
      << <<"main", Entry(TRUE, "main", TRUE, <<MainBundleJs>>)>> >>,
      << <<"main", Entry(FALSE, "", TRUE, <<MainBundleJs>>)>> >> }

\* one configured plugin: its lab_config item, and what find_labextension,
\* validate_labextension_folder, get_labextension_manifest_data_by_name and
\* its config provider answer
PluginEnv(enabled, found, warned, manifest, pm, prov) ==
    [enabled |-> enabled, found |-> found, warnings |-> warned,
     data |-> manifest, python_module |-> pm, provider |-> prov]

\* plugins the registration loop admits: every manifest without a provider,
\* every provider outcome with the manifest of the spec's scenario, and a
\* provider that returns a mapping with every manifest
Admissible(name) ==
    {PluginEnv(TRUE, TRUE, FALSE, [none |-> FALSE, items |-> m], None, Raises) :
        m \in Manifests}
    \cup
    {PluginEnv(TRUE, TRUE, FALSE, [none |-> FALSE, items |-> ManifestFoo], Str(<<>>), Raises)}
    \cup
    {PluginEnv(TRUE, TRUE, FALSE, [none |-> FALSE, items |-> ManifestFoo], ModuleOf(name), pv) :
        pv \in ProviderValues}
    \cup
    {PluginEnv(TRUE, TRUE, FALSE, [none |-> FALSE, items |-> m], ModuleOf(name),
               ReturnsDict(<<Pair("x", 1)>>)) : m \in Manifests}

Inadmissible(name) ==
    LET good == [none |-> FALSE, items |-> ManifestFoo]
        pv == ReturnsDict(<<Pair("x", 1)>>)
    IN  {PluginEnv(FALSE, TRUE, FALSE, good, ModuleOf(name), pv),
         PluginEnv(TRUE, FALSE, FALSE, good, ModuleOf(name), pv),
         PluginEnv(TRUE, TRUE, TRUE, good, ModuleOf(name), pv),
         PluginEnv(TRUE, TRUE, FALSE, [none |-> TRUE, items |-> <<>>], ModuleOf(name), pv)}

PluginEnvs(name) == Admissible(name) \cup Inadmissible(name)

(***************************************************************************)
(* Pure helpers of the handler                                             *)
(***************************************************************************)
\* str.rfind, 1-based, 0 when absent
RFind(p, c) ==
    IF \E i \in 1..Len(p) : p[i] = c
    THEN CHOOSE i \in 1..Len(p) : p[i] = c /\ \A j \in (i+1)..Len(p) : p[j] # c
    ELSE 0

\* os.path.splitext(p)[1]
SplitextExt(p) ==
    LET sepIndex == RFind(p, "/")
        dotIndex == RFind(p, ".")
    IN  IF dotIndex > sepIndex
           /\ \E i \in (sepIndex+1)..(dotIndex-1) : p[i] # "."
        THEN SubSeq(p, dotIndex, Len(p))
        ELSE <<>>

RECURSIVE NameLess(_, _)
\* python's a < b on strings
NameLess(a, b) ==
    IF b = <<>> THEN FALSE
    ELSE IF a = <<>> THEN TRUE
    ELSE IF Ord(Head(a)) # Ord(Head(b)) THEN Ord(Head(a)) < Ord(Head(b))
    ELSE NameLess(Tail(a), Tail(b))

RECURSIVE InsertSorted(_, _)
InsertSorted(item, s) ==
    IF s = <<>> THEN <<item>>
    ELSE IF NameLess(item[1], Head(s)[1]) THEN <<item>> \o s
    ELSE <<Head(s)>> \o InsertSorted(item, Tail(s))

\* iteration in dict order, without sorted()
Unsorted(d) == d

RECURSIVE Sorted(_)
\* sorted(labextensions.items()); the keys are distinct, so the dict values
\* are never compared
Sorted(d) ==
    IF d = <<>> THEN <<>>
    ELSE InsertSorted(d[Len(d)], Sorted(SubSeq(d, 1, Len(d) - 1)))

\* ujoin(self.base_url, PREFIX) + '/' + file, with base_url '/'
StaticUrl(file) == [prefix |-> PREFIX, name |-> <<>>, file |-> file]

\* '%s/%s/%s' % (extension_prefix, name, fname)
ExtensionUrl(name, fname) == [prefix |-> EXTENSION_PREFIX, name |-> name, file |-> fname]

RECURSIVE CssUrls(_, _)
\* the loop of lines 105-109 over one entry's files
CssUrls(name, files) ==
    IF files = <<>> THEN <<>>
    ELSE (IF SplitextExt(Head(files)) = CssExt
          THEN <<ExtensionUrl(name, Head(files))>> ELSE <<>>)
         \o CssUrls(name, Tail(files))

\* value.get('entry', None) is truthy
HasEntryPoint(value) == value.hasEntry /\ value.entry # ""

\* a gather that collects the CSS files of entries with an entry point only
GatherValueCssWithEntryOnly(acc, name, value) ==
    IF value.kind # "dict" THEN acc
    ELSE
      IF ~HasEntryPoint(value)
      THEN (IF value.hasFiles THEN acc ELSE [acc EXCEPT !.raised = TRUE])
      ELSE IF ~value.hasFiles \/ value.files = <<>>
      THEN [acc EXCEPT !.entries = Append(@, value.entry), !.raised = TRUE]
      ELSE [acc EXCEPT !.entries = Append(@, value.entry),
                       !.bundles = Append(@, ExtensionUrl(name, value.files[1])),
                       !.css_files = @ \o CssUrls(name, value.files)]

\* body of `for value in data.values()`; acc.raised records a KeyError or
\* IndexError leaving the loop
GatherValue(acc, name, value) ==
    IF value.kind # "dict" THEN acc
    ELSE
      LET a1 == IF HasEntryPoint(value)
                THEN [acc EXCEPT !.entries = Append(@, value.entry)]
                ELSE acc
      IN  IF HasEntryPoint(value) /\ (~value.hasFiles \/ value.files = <<>>)
          THEN [a1 EXCEPT !.raised = TRUE]
          ELSE
            LET a2 == IF HasEntryPoint(value)
                      THEN [a1 EXCEPT !.bundles =
                                Append(@, ExtensionUrl(name, value.files[1]))]
                      ELSE a1
            IN  IF ~value.hasFiles
                THEN [a2 EXCEPT !.raised = TRUE]
                ELSE [a2 EXCEPT !.css_files = @ \o CssUrls(name, value.files)]

RECURSIVE GatherValues(_, _, _)
GatherValues(acc, name, values) ==
    IF values = <<>> \/ acc.raised THEN acc
    ELSE GatherValues(GatherValue(acc, name, Head(values)), name, Tail(values))

RECURSIVE UpdateFrom(_, _)
\* dict.update over the elements of an iterable: every element before the
\* first one that is not a key/value pair is stored
UpdateFrom(cfg, elems) ==
    IF elems = <<>> THEN [cfg |-> cfg, raised |-> FALSE]
    ELSE IF ~Head(elems).pair THEN [cfg |-> cfg, raised |-> TRUE]
    ELSE UpdateFrom(DictSet(cfg, Head(elems).k, Head(elems).v), Tail(elems))

\* lines 112-116: the provider call and configData.update(value) inside the try
Update(cfg, value) ==
    CASE value.kind = "raise" -> [cfg |-> cfg, raised |-> TRUE]
      [] value.kind = "none"  -> [cfg |-> cfg, raised |-> TRUE]
      [] OTHER                -> UpdateFrom(cfg, value.elems)

\* `if python_module:`
Truthy(pm) == pm.kind = "str" /\ pm.s # <<>>

\* get_labextension_config_python(python_module)
ProviderOf(pm) == env[CHOOSE n \in Names : ModuleOf(n) = pm].provider

\* the loop body without the try/except around the provider call
PluginStepNoTry(acc, name, pdata) ==
    LET g == GatherValues([entries |-> acc.entries, bundles |-> acc.bundles,
                           css_files |-> acc.css_files, raised |-> FALSE],
                          name, DictValues(pdata))
        python_module == IF DictHas(pdata, "python_module")
                         THEN DictGet(pdata, "python_module") ELSE None
        called == ~g.raised /\ Truthy(python_module)
        u == Update(acc.configData, ProviderOf(python_module))
    IN  [entries |-> g.entries, bundles |-> g.bundles, css_files |-> g.css_files,
         configData |-> IF called THEN u.cfg ELSE acc.configData,
         calls |-> IF called THEN Append(acc.calls, name) ELSE acc.calls,
         raised |-> g.raised \/ (called /\ u.raised)]

\* body of the loop of lines 96-116 for one (name, data) item; acc holds the
\* handler's locals, acc.raised an exception that leaves get()
PluginStep(acc, name, pdata) ==
    LET g == GatherValues([entries |-> acc.entries, bundles |-> acc.bundles,
                           css_files |-> acc.css_files, raised |-> FALSE],
                          name, DictValues(pdata))
        python_module == IF DictHas(pdata, "python_module")
                         THEN DictGet(pdata, "python_module") ELSE None
        called == ~g.raised /\ Truthy(python_module)
    IN  [entries |-> g.entries, bundles |-> g.bundles, css_files |-> g.css_files,
         configData |-> IF called
                        THEN Update(acc.configData, ProviderOf(python_module)).cfg
                        ELSE acc.configData,
         calls |-> IF called THEN Append(acc.calls, name) ELSE acc.calls,
         raised |-> g.raised]

\* the locals of request r, as PluginStep takes them
Locals(r) ==
    [entries |-> entries[r], bundles |-> bundles[r], css_files |-> css_files[r],
     configData |-> configData[r], calls |-> calls[r], raised |-> FALSE]

ErrorPage ==
    [template |-> "error.html", status_code |-> 500,
     status_message |-> "JupyterLab Error", page_title |-> "JupyterLab Error"]

\* the template context of lines 78-88 and 118
MakeLabPage(main, a) ==
    [template |-> "lab.html", page_title |-> "JupyterLab Alpha Preview",
     jupyterlab_main |-> main,
     jupyterlab_css |-> a.css_files,
     jupyterlab_bundles |-> a.bundles,
     plugin_entries |-> a.entries,
     jupyterlab_config |-> a.configData]

LabPage(r) == MakeLabPage(DictGet(data[r], "main").entry, Locals(r))

\* the locals after lines 68-93; f is os.path.isfile of main.css, and
\* terminals_available is left at its default
BaseLocals(f) ==
    [entries |-> <<>>,
     bundles |-> <<StaticUrl(LoaderBundleJs), StaticUrl(MainBundleJs)>>,
     css_files |-> IF f THEN <<StaticUrl(MainCss)>> ELSE <<>>,
     configData |-> << <<"terminalsAvailable", 0>> >>,
     calls |-> <<>>, raised |-> FALSE]

RECURSIVE RunPlugins(_, _)
RunPlugins(acc, its) ==
    IF its = <<>> \/ acc.raised THEN acc
    ELSE RunPlugins(PluginStep(acc, Head(its)[1], Head(its)[2]), Tail(its))

Uncaught == [template |-> "uncaught exception"]

\* LabHandler.get run to its end over registry reg: the page it writes
RunGet(reg, d, f) ==
    IF ~DictHas(d, "main") THEN ErrorPage
    ELSE IF ~DictGet(d, "main").hasEntry THEN Uncaught
    ELSE LET a == RunPlugins(BaseLocals(f), Sorted(reg))
         IN  IF a.raised THEN Uncaught
             ELSE MakeLabPage(DictGet(d, "main").entry, a)

(***************************************************************************)
(* load_jupyter_server_extension                                           *)
(***************************************************************************)
\* a registration loop that never looks at the validation warnings
SkippedIgnoringWarnings(e) == ~e.enabled \/ ~e.found \/ e.data.none

\* the four `continue`s of the registration loop
Skipped(e) == ~e.enabled \/ ~e.found \/ e.warnings \/ e.data.none

\* the loop over lab_config.labextensions.items() has finished
LoopDone == todo = {}

Init ==
    /\ env \in [Names -> UNION {PluginEnvs(n) : n \in Names}]
    /\ \A n \in Names : env[n] \in PluginEnvs(n)
    /\ built \in BuildManifests
    /\ todo = Names
    /\ out = <<>>
    /\ routed = FALSE
    /\ labextensions = <<>>
    /\ pc = [r \in Requests |-> "START"]
    /\ items = [r \in Requests |-> <<>>]
    /\ bundles = [r \in Requests |-> <<>>]
    /\ css_files = [r \in Requests |-> <<>>]
    /\ entries = [r \in Requests |-> <<>>]
    /\ configData = [r \in Requests |-> <<>>]
    /\ written = [r \in Requests |-> <<>>]
    /\ calls = [r \in Requests |-> <<>>]
    /\ data = [r \in Requests |-> <<>>]
    /\ isfile = [r \in Requests |-> FALSE]

handlerVars == <<pc, items, bundles, css_files, entries, configData, written,
                 calls, data, isfile>>

\* one iteration of the loop of lines 142-155
Register ==
    /\ \E name \in todo :
        /\ todo' = todo \ {name}
        /\ out' = IF Skipped(env[name]) THEN out
                  ELSE DictSet(out, name,
                         DictSet(env[name].data.items, "python_module",
                                 env[name].python_module))
    /\ UNCHANGED <<env, built, routed, labextensions, handlerVars>>

\* the route added without waiting for the registration loop to finish
AddHandlersEarly ==
    /\ ~routed
    /\ routed' = TRUE
    /\ labextensions' = out
    /\ UNCHANGED <<env, built, todo, out, handlerVars>>

\* lines 158-167
AddHandlers ==
    /\ ~routed
    /\ LoopDone
    /\ routed' = TRUE
    /\ labextensions' = out
    /\ UNCHANGED <<env, built, todo, out, handlerVars>>

(***************************************************************************)
(* LabHandler.get                                                          *)
(***************************************************************************)
\* lines 52-55
Get(r) ==
    /\ routed
    /\ pc[r] = "START"
    /\ data' = [data EXCEPT ![r] = built]
    /\ pc' = [pc EXCEPT ![r] = "CHECK_BUILD_ARTIFACTS"]
    /\ UNCHANGED <<env, built, todo, out, routed, labextensions, items, bundles,
                   css_files, entries, configData, written, calls, isfile>>

\* the error branch without its `return`: data['main'] then raises KeyError
ErrorResponseNoReturn(r) ==
    /\ pc[r] = "CHECK_BUILD_ARTIFACTS"
    /\ ~DictHas(data[r], "main")
    /\ written' = [written EXCEPT ![r] = Append(@, ErrorPage)]
    /\ pc' = [pc EXCEPT ![r] = "EXCEPTION"]
    /\ UNCHANGED <<env, built, todo, out, routed, labextensions, items, bundles,
                   css_files, entries, configData, calls, data, isfile>>

\* lines 56-65
ErrorResponse(r) ==
    /\ pc[r] = "CHECK_BUILD_ARTIFACTS"
    /\ ~DictHas(data[r], "main")
    /\ written' = [written EXCEPT ![r] = Append(@, ErrorPage)]
    /\ pc' = [pc EXCEPT ![r] = "ERROR_RESPONSE"]
    /\ UNCHANGED <<env, built, todo, out, routed, labextensions, items, bundles,
                   css_files, entries, configData, calls, data, isfile>>

\* lines 67-93
BuildPlan(r) ==
    /\ pc[r] = "CHECK_BUILD_ARTIFACTS"
    /\ DictHas(data[r], "main")
    /\ IF ~DictGet(data[r], "main").hasEntry
       THEN /\ pc' = [pc EXCEPT ![r] = "EXCEPTION"]
            /\ UNCHANGED <<items, bundles, css_files, entries, configData, isfile>>
       ELSE /\ \E f \in BOOLEAN :
                /\ isfile' = [isfile EXCEPT ![r] = f]
                /\ css_files' = [css_files EXCEPT ![r] = BaseLocals(f).css_files]
            /\ bundles' = [bundles EXCEPT ![r] = BaseLocals(TRUE).bundles]
            /\ entries' = [entries EXCEPT ![r] = BaseLocals(TRUE).entries]
            /\ configData' = [configData EXCEPT ![r] = BaseLocals(TRUE).configData]
            /\ items' = [items EXCEPT ![r] = Sorted(labextensions)]
            /\ pc' = [pc EXCEPT ![r] = "BUILD_PLAN"]
    /\ UNCHANGED <<env, built, todo, out, routed, labextensions, written, calls, data>>

\* one iteration of the loop of lines 96-116
Plugin(r) ==
    /\ pc[r] = "BUILD_PLAN"
    /\ items[r] # <<>>
    /\ LET a == PluginStep(Locals(r), Head(items[r])[1], Head(items[r])[2])
       IN  /\ entries' = [entries EXCEPT ![r] = a.entries]
           /\ bundles' = [bundles EXCEPT ![r] = a.bundles]
           /\ css_files' = [css_files EXCEPT ![r] = a.css_files]
           /\ configData' = [configData EXCEPT ![r] = a.configData]
           /\ calls' = [calls EXCEPT ![r] = a.calls]
           /\ IF a.raised
              THEN /\ pc' = [pc EXCEPT ![r] = "EXCEPTION"]
                   /\ UNCHANGED items
              ELSE /\ items' = [items EXCEPT ![r] = Tail(@)]
                   /\ UNCHANGED pc
    /\ UNCHANGED <<env, built, todo, out, routed, labextensions, written, data, isfile>>

\* lines 118-119
Render(r) ==
    /\ pc[r] = "BUILD_PLAN"
    /\ items[r] = <<>>
    /\ written' = [written EXCEPT ![r] = Append(@, LabPage(r))]
    /\ pc' = [pc EXCEPT ![r] = "DONE"]
    /\ UNCHANGED <<env, built, todo, out, routed, labextensions, items, bundles,
                   css_files, entries, configData, calls, data, isfile>>

Next ==
    \/ Register
    \/ AddHandlers
    \/ \E r \in Requests : Get(r)
    \/ \E r \in Requests : ErrorResponse(r)
    \/ \E r \in Requests : BuildPlan(r)
    \/ \E r \in Requests : Plugin(r)
    \/ \E r \in Requests : Render(r)

Spec == Init /\ [][Next]_vars

(***************************************************************************)
(* Vocabulary of the properties                                            *)
(***************************************************************************)
Registered == DictKeys(labextensions)

\* plugin n is registered and declares a python module, so get() calls its provider
HasProvider(n) ==
    /\ n \in Registered
    /\ Truthy(DictGet(DictGet(labextensions, n), "python_module"))

\* the provider of n returns a mapping that holds key k
ReturnsKey(n, k) ==
    /\ env[n].provider.kind = "dict"
    /\ \E e \in Range(env[n].provider.elems) : e.k = k

ReturnedValue(n, k) ==
    (CHOOSE e \in Range(env[n].provider.elems) : e.k = k).v

\* the provider of n hands back something dict.update may store k from
MayStore(n, k) ==
    /\ env[n].provider.kind \in {"dict", "seq"}
    /\ \E e \in Range(env[n].provider.elems) : e.pair /\ e.k = k

ConfigKeys == {"x", "y"}

Finished(r) == pc[r] = "DONE"

Page(r) == written[r][1]

\* C1: config contributions are merged in ascending plugin-name order, last
\* writer wins: when the providers of two registered plugins A < B both return
\* a mapping holding key k (and no plugin named after B stores k), the rendered
\* jupyterlab_config holds B's value for k, whatever the insertion order of
\* the registry.
C1_LastWriterWins ==
    \A r \in Requests : Finished(r) =>
        \A A \in Names, B \in Names, k \in ConfigKeys :
            ( /\ NameLess(A, B)
              /\ HasProvider(A) /\ HasProvider(B)
              /\ ReturnsKey(A, k) /\ ReturnsKey(B, k)
              /\ ~\E C \in Names : NameLess(B, C) /\ HasProvider(C) /\ MayStore(C, k) )
            => /\ DictHas(Page(r).jupyterlab_config, k)
               /\ DictGet(Page(r).jupyterlab_config, k) = ReturnedValue(B, k)

\* 'b' was inserted into the registry before 'a'; 'a' returns {x: 1}, 'b'
\* returns {x: 2, y: 2}; the page holds x == 2
C1_Witness ==
    \E r \in Requests :
        /\ Finished(r)
        /\ Len(labextensions) = 2 /\ labextensions[1][1] = NameB
        /\ HasProvider(NameA) /\ HasProvider(NameB)
        /\ env[NameA].provider = ReturnsDict(<<Pair("x", 1)>>)
        /\ env[NameB].provider = ReturnsDict(<<Pair("x", 2), Pair("y", 2)>>)
        /\ DictGet(Page(r).jupyterlab_config, "x") = 2

ManifestOf(n) == env[n].data.items

\* a manifest value the gather loop cannot read: no 'files' key, or an entry
\* point with an empty 'files' list
Unreadable(value) ==
    ~value.hasFiles \/ (HasEntryPoint(value) /\ value.files = <<>>)

Defective(m) == \E i \in 1..Len(m) : Unreadable(m[i][2])

\* C2: provider failure isolation: whichever providers raise, the merge loop
\* still calls the provider of every registered plugin that declares one, no
\* request ends in an exception because of a provider, the rendered
\* jupyterlab_config holds every key of every provider that returned a mapping
\* (with that provider's value unless a later-named plugin stored the key), and
\* the bundle and CSS URLs of a plugin whose provider raised are on the page.
C2_ProviderIsolation ==
    \A r \in Requests :
        /\ Finished(r) =>
            /\ Range(calls[r]) = {n \in Names : HasProvider(n)}
            /\ \A n \in Names, k \in ConfigKeys :
                (HasProvider(n) /\ ReturnsKey(n, k)) =>
                    /\ DictHas(Page(r).jupyterlab_config, k)
                    /\ (~\E m \in Names : NameLess(n, m) /\ HasProvider(m) /\ MayStore(m, k))
                        => DictGet(Page(r).jupyterlab_config, k) = ReturnedValue(n, k)
            /\ \A n \in Names :
                (HasProvider(n) /\ env[n].provider.kind = "raise") =>
                    \A i \in 1..Len(ManifestOf(n)) :
                        LET value == ManifestOf(n)[i][2]
                        IN  /\ HasEntryPoint(value) =>
                                ExtensionUrl(n, value.files[1]) \in Range(Page(r).jupyterlab_bundles)
                            /\ \A f \in Range(value.files) :
                                SplitextExt(f) = CssExt =>
                                    ExtensionUrl(n, f) \in Range(Page(r).jupyterlab_css)
        /\ pc[r] = "EXCEPTION" =>
            \/ ~DictGet(data[r], "main").hasEntry
            \/ items[r] # <<>> /\ Defective(ManifestOf(Head(items[r])[1]))

\* the provider of 'a' raised, the provider of 'b' returned {x: 1}: the page
\* holds x == 1 and the bundle of 'a'
C2_Witness ==
    \E r \in Requests :
        /\ Finished(r)
        /\ HasProvider(NameA) /\ env[NameA].provider = Raises
        /\ HasProvider(NameB) /\ env[NameB].provider = ReturnsDict(<<Pair("x", 1)>>)
        /\ calls[r] = <<NameA, NameB>>
        /\ DictGet(Page(r).jupyterlab_config, "x") = 1
        /\ ExtensionUrl(NameA, FooJs) \in Range(Page(r).jupyterlab_bundles)

\* the number of manifest values with an entry point among registered plugins
RECURSIVE EntryPoints(_)
EntryPoints(m) ==
    IF m = <<>> THEN 0
    ELSE (IF HasEntryPoint(Head(m)[2]) THEN 1 ELSE 0) + EntryPoints(Tail(m))

RECURSIVE RegisteredEntryPoints(_)
RegisteredEntryPoints(reg) ==
    IF reg = <<>> THEN 0
    ELSE EntryPoints(ManifestOf(Head(reg)[1])) + RegisteredEntryPoints(Tail(reg))

\* the registration loop has reason to skip plugin n
Rejected(n) ==
    \/ env[n].warnings
    \/ ~env[n].enabled
    \/ ~env[n].found
    \/ env[n].data.none

\* C3: a plugin whose folder fails validation (or that is disabled, not found,
\* or has manifest data None) is never in the registry and, in every request,
\* contributes no bundle URL, no CSS URL, no plugin entry and no provider call,
\* also when its manifest parses and it declares a python_module.
C3_RejectedPluginAbsent ==
    \A n \in Names : Rejected(n) =>
        /\ n \notin DictKeys(out)
        /\ n \notin Registered
        /\ \A r \in Requests :
            /\ \A u \in Range(bundles[r]) \cup Range(css_files[r]) : u.name # n
            /\ n \notin Range(calls[r])
            /\ n \notin {items[r][i][1] : i \in 1..Len(items[r])}
            /\ Len(entries[r]) <= RegisteredEntryPoints(labextensions)
            /\ (\A m \in Names : Rejected(m)) =>
                /\ entries[r] = <<>>
                /\ DictKeys(configData[r]) \subseteq {"terminalsAvailable"}

\* 'a' failed validation although its manifest parses and it declares a
\* python module; 'b' is registered; a page was rendered from b alone
C3_Witness ==
    \E r \in Requests :
        /\ Finished(r)
        /\ env[NameA].warnings /\ env[NameA].enabled /\ env[NameA].found
        /\ ~env[NameA].data.none /\ Truthy(env[NameA].python_module)
        /\ NameB \in Registered
        /\ Len(Page(r).jupyterlab_bundles) = 3
        /\ calls[r] = <<NameB>>

\* C4: when the build manifest has no 'main' key, the handler writes exactly
\* the error page with status_code 500 and returns: no bundle list, CSS list
\* or config payload is built, no provider is invoked and lab.html is never
\* written for that request.
C4_BuildMissing ==
    \A r \in Requests :
        (pc[r] # "START" /\ ~DictHas(data[r], "main")) =>
            /\ pc[r] \in {"CHECK_BUILD_ARTIFACTS", "ERROR_RESPONSE"}
            /\ pc[r] = "CHECK_BUILD_ARTIFACTS" => written[r] = <<>>
            /\ pc[r] = "ERROR_RESPONSE" =>
                /\ Len(written[r]) = 1
                /\ written[r][1].template = "error.html"
                /\ written[r][1].status_code = 500
            /\ bundles[r] = <<>> /\ css_files[r] = <<>> /\ entries[r] = <<>>
            /\ configData[r] = <<>> /\ calls[r] = <<>>

\* a request answered the error page while a plugin with a provider is registered
C4_Witness ==
    \E r \in Requests :
        /\ pc[r] = "ERROR_RESPONSE"
        /\ data[r] = <<>>
        /\ written[r] = <<ErrorPage>>
        /\ \E n \in Names : HasProvider(n)

\* the least of a set of names in python's string order
MinName(S) == CHOOSE n \in S : \A m \in S \ {n} : NameLess(n, m)

\* fname ends in ".css" after a stem that is not made of dots only
HasCssExtension(fname) ==
    /\ Len(fname) > 4
    /\ SubSeq(fname, Len(fname) - 3, Len(fname)) = CssExt
    /\ \E i \in 1..(Len(fname) - 4) : fname[i] # "."

RECURSIVE CssOfFiles(_, _)
CssOfFiles(n, files) ==
    IF files = <<>> THEN <<>>
    ELSE (IF HasCssExtension(Head(files)) THEN <<ExtensionUrl(n, Head(files))>> ELSE <<>>)
         \o CssOfFiles(n, Tail(files))

RECURSIVE BundlesOfManifest(_, _)
BundlesOfManifest(n, m) ==
    IF m = <<>> THEN <<>>
    ELSE (IF Head(m)[2].hasEntry /\ Head(m)[2].entry # ""
          THEN <<ExtensionUrl(n, Head(Head(m)[2].files))>> ELSE <<>>)
         \o BundlesOfManifest(n, Tail(m))

RECURSIVE CssOfManifest(_, _)
CssOfManifest(n, m) ==
    IF m = <<>> THEN <<>>
    ELSE CssOfFiles(n, Head(m)[2].files) \o CssOfManifest(n, Tail(m))

RECURSIVE ExpectedBundles(_)
ExpectedBundles(S) ==
    IF S = {} THEN <<>>
    ELSE LET n == MinName(S)
         IN  BundlesOfManifest(n, ManifestOf(n)) \o ExpectedBundles(S \ {n})

RECURSIVE ExpectedCss(_)
ExpectedCss(S) ==
    IF S = {} THEN <<>>
    ELSE LET n == MinName(S)
         IN  CssOfManifest(n, ManifestOf(n)) \o ExpectedCss(S \ {n})

\* C5: on the BUILD_PLAN path the rendered bundle list is exactly loader, main,
\* then, for plugins in ascending name order and each manifest entry with a
\* non-empty 'entry', the URL extension_prefix/name/<first file>; the CSS list
\* is the core main.css (when it exists) followed by one URL
\* extension_prefix/name/<file> for every .css file of every manifest entry of
\* every registered plugin, with or without an 'entry' field.
C5_AssetLists ==
    \A r \in Requests : Finished(r) =>
        /\ Page(r).jupyterlab_bundles =
              <<StaticUrl(LoaderBundleJs), StaticUrl(MainBundleJs)>>
              \o ExpectedBundles(Registered)
        /\ Page(r).jupyterlab_css =
              (IF isfile[r] THEN <<StaticUrl(MainCss)>> ELSE <<>>)
              \o ExpectedCss(Registered)

\* registry {a: {foo: {entry: 'foo/index', files: ['foo.js', 'foo.css']}},
\* b: the two-entry manifest whose first entry has no 'entry' field}
C5_Witness ==
    \E r \in Requests :
        /\ Finished(r)
        /\ Registered = {NameA, NameB}
        /\ ManifestOf(NameA) = ManifestFoo
        /\ ManifestOf(NameB) = ManifestTwoEntries
        /\ ExtensionUrl(NameA, FooJs) \in Range(Page(r).jupyterlab_bundles)
        /\ ExtensionUrl(NameA, FooCss) \in Range(Page(r).jupyterlab_css)
        /\ ExtensionUrl(NameB, FooCss) \in Range(Page(r).jupyterlab_css)

\* every order the items of dict d can be inserted in
InsertionOrders(d) ==
    {p \in [1..Len(d) -> Range(d)] : Range(p) = Range(d)}

\* C6: the merge is deterministic: a finished request wrote the page that
\* get() writes for the same build manifest and the same registry contents
\* inserted in any other order, and two finished requests that read the same
\* build manifest and the same main.css answer wrote identical pages
\* (jupyterlab_config, jupyterlab_bundles, jupyterlab_css, plugin_entries).
C6_Deterministic ==
    \A r \in Requests : Finished(r) =>
        /\ \A reg \in InsertionOrders(labextensions) :
              RunGet(reg, data[r], isfile[r]) = Page(r)
        /\ \A q \in Requests :
              (Finished(q) /\ data[q] = data[r] /\ isfile[q] = isfile[r])
              => written[q] = written[r]

\* two requests finished on the same inputs over a registry of two plugins
\* with providers, 'b' inserted first
C6_Witness ==
    \E r \in Requests, q \in Requests :
        /\ r # q /\ Finished(r) /\ Finished(q)
        /\ data[q] = data[r] /\ isfile[q] = isfile[r]
        /\ Len(labextensions) = 2 /\ labextensions[1][1] = NameB
        /\ HasProvider(NameA) /\ HasProvider(NameB)
        /\ Len(Page(r).jupyterlab_config) > 1

\* C7: every request moves START -> CHECK_BUILD_ARTIFACTS ->
\* {ERROR_RESPONSE | BUILD_PLAN -> DONE}, ends with exactly one page written,
\* and no build-manifest or plugin defect ends it with an uncaught exception.
\* Lines 67, 103 and 105 index the manifests outside any try block.
C7_AlwaysRendersAPage ==
    \A r \in Requests :
        /\ pc[r] \in {"START", "CHECK_BUILD_ARTIFACTS", "ERROR_RESPONSE",
                      "BUILD_PLAN", "DONE"}
        /\ pc[r] \in {"ERROR_RESPONSE", "DONE"} => Len(written[r]) = 1

\* the registry as registration leaves it for plugin n
RegisteredData(n) == DictGet(labextensions, n)

RegistryComplete ==
    /\ todo = {}
    /\ labextensions = out
    /\ Registered = {n \in Names : ~Rejected(n)}
    /\ \A n \in Registered :
        /\ SubSeq(RegisteredData(n), 1, Len(RegisteredData(n)) - 1) = env[n].data.items
        /\ RegisteredData(n)[Len(RegisteredData(n))] =
              <<"python_module", env[n].python_module>>

\* C8: the registry is complete before the LabHandler route exists and no
\* request changes it: every request, under every interleaving, works on the
\* final output of registration (same names, manifest data and python_module
\* values), and once the route is added neither `out` nor the handler's
\* labextensions changes.
C8_RegistryImmutable ==
    /\ [](\A r \in Requests :
            /\ pc[r] # "START" => routed
            /\ routed => RegistryComplete
            /\ \E k \in 1..(Len(labextensions) + 1) :
                  items[r] = SubSeq(Sorted(labextensions), k, Len(labextensions)))
    /\ [][routed => (labextensions' = labextensions /\ out' = out)]_vars

\* two requests are inside the merge loop at different plugins of a registry
\* of two plugins
C8_Witness ==
    /\ Len(labextensions) = 2
    /\ pc[1] = "BUILD_PLAN" /\ pc[2] = "BUILD_PLAN"
    /\ Len(items[1]) = 2 /\ Len(items[2]) = 1

\* C9: no URL occurs twice in the CSS list handed to the renderer.  Lines
\* 105-109 append without looking at what the list already holds.
C9_CssDeduplicated ==
    \A r \in Requests : Finished(r) =>
        \A i \in 1..Len(Page(r).jupyterlab_css), j \in 1..Len(Page(r).jupyterlab_css) :
            Page(r).jupyterlab_css[i] = Page(r).jupyterlab_css[j] => i = j

\* C10: a provider that returns a non-mapping value contributes
\* nothing: every key of the rendered jupyterlab_config is the handler's own
\* or comes from a provider that returned a mapping.  dict.update keeps the
\* pairs it stored before the element it could not unpack.
C10_NonMappingContributesNothing ==
    \A r \in Requests : Finished(r) =>
        \A k \in DictKeys(Page(r).jupyterlab_config) :
            \/ k = "terminalsAvailable"
            \/ \E n \in Names : HasProvider(n) /\ ReturnsKey(n, k)

====
